---- MODULE Spec2Model ----
(***************************************************************************)
(* MedTimer (src/app.py): the medicine store kept in st.session_state, its *)
(* status engine, the adherence history and the JSON file it is persisted  *)
(* to.  One action per function of the persistence and CRUD layer; the     *)
(* wall clock and the outcome of each file write belong to the             *)
(* environment.                                                            *)
(***************************************************************************)
EXTENDS Integers, Sequences, FiniteSets, TLC

VARIABLES
    meds,        \* st.session_state.meds: list of medicine dicts
    history,     \* st.session_state.history: ISO date string -> {scheduled, taken}
    id_counter,  \* st.session_state.id_counter
    file,        \* medtimer_data.json on disk
    today,       \* dt.date.today(), as a day ordinal (0 is 2024-01-01)
    now,         \* dt.datetime.now(), as the minute of the day
    streak,      \* the value current_streak() returned last
    issued,      \* the ids add_medicine has given out so far
    calls,       \* how many of add, edit, delete and mark_taken have run
    last         \* the call that ran last and how it ended

vars == <<meds, history, id_counter, file, today, now, streak, issued, calls, last>>

store == <<meds, history, id_counter>>

----------------------------------------------------------------------------
(* Bounds of the model                                                     *)

MaxMeds == 2      \* add_medicine is not offered beyond this many medicines
MaxId == 2        \* add_medicine is not offered once id_counter exceeds this
MaxCalls == 3     \* add, edit, delete and mark_taken run at most this often in all
MaxDay == 1       \* the clock does not move beyond this day ordinal
MaxRun == 31      \* longest run of fully taken days in the streak inputs

(* The look-back of current_streak: range(30).                             *)
StreakWindow == 30

(* Inputs of the forms: what the user may type.                            *)
Names == {" Advil "}
TimeInputs == {" 8:00", "soon"}
RemindMins == {10}
Clock == {479, 480, 481}
StreakDays == {40, 60}
BreakKinds == {"missing", "zero", "partial"}
Morning == CHOOSE c \in Clock : \A d \in Clock : c <= d
IoOutcomes == {"ok", "open_fails", "write_fails"}

----------------------------------------------------------------------------
(* Python values that may be None, and str.strip()                         *)

None == [ty |-> "NoneType"]
PyStr(s) == [ty |-> "str", v |-> s]
PyInt(n) == [ty |-> "int", v |-> n]

RECURSIVE lstrip(_)
lstrip(s) ==
    IF Len(s) > 0 /\ SubSeq(s, 1, 1) = " " THEN lstrip(SubSeq(s, 2, Len(s))) ELSE s

RECURSIVE rstrip(_)
rstrip(s) ==
    IF Len(s) > 0 /\ SubSeq(s, Len(s), Len(s)) = " "
    THEN rstrip(SubSeq(s, 1, Len(s) - 1))
    ELSE s

strip(s) == lstrip(rstrip(s))

----------------------------------------------------------------------------
(* Dates and times                                                         *)

Pad2(n) == IF n < 10 THEN "0" \o ToString(n) ELSE ToString(n)

(* date.isoformat() of day ordinal d, for 2023-12-01 .. 2024-03-31.        *)
isoformat(d) ==
    IF d < 0 THEN "2023-12-" \o Pad2(d + 32)
    ELSE IF d < 31 THEN "2024-01-" \o Pad2(d + 1)
    ELSE IF d < 60 THEN "2024-02-" \o Pad2(d - 30)
    ELSE "2024-03-" \o Pad2(d - 59)

(* datetime.isoformat(timespec="minutes") of minute m of day d.            *)
isoformat_minutes(d, m) ==
    isoformat(d) \o "T" \o Pad2(m \div 60) \o ":" \o Pad2(m % 60)

(* dateutil's parser.parse(s).time() on the strings of the model: the      *)
(* minute of the day, or no entry when parser.parse raises.                *)
ParserTable == ("8:00" :> 480) @@ ("08:00 AM" :> 480)

parse_raises(time_str) == time_str \notin DOMAIN ParserTable

(* parse_hhmm: today's date combined with the parsed time; both sides of   *)
(* the comparison in compute_status carry today's date, so the minute of   *)
(* the day decides it.                                                     *)
parse_hhmm(time_str) == ParserTable[time_str]

----------------------------------------------------------------------------
(* Status engine                                                           *)

(* compute_status as it would be with a status that lapses at midnight:    *)
(* "taken" is kept only while taken_at is of today.                        *)
compute_status_daily(med, clk) ==
    IF med.status = "taken" /\ SubSeq(med.taken_at.v, 1, 10) = isoformat(today)
    THEN "taken"
    ELSE IF parse_raises(med.time_str) THEN "missed"
    ELSE IF clk < parse_hhmm(med.time_str) THEN "upcoming" ELSE "missed"

(* compute_status as it would be with <= for <.                            *)
compute_status_inclusive(med, clk) ==
    IF med.status = "taken" THEN "taken"
    ELSE IF clk <= parse_hhmm(med.time_str) THEN "upcoming" ELSE "missed"

compute_status(med, clk) ==
    IF med.status = "taken" THEN "taken"
    ELSE IF clk < parse_hhmm(med.time_str) THEN "upcoming" ELSE "missed"

(* compute_status raises when it has to parse a string the parser rejects. *)
compute_status_raises(med) ==
    med.status # "taken" /\ parse_raises(med.time_str)

(* update_all_statuses: the loop assigns in list order and stops at the    *)
(* first medicine whose time string does not parse; what it assigned       *)
(* before stays assigned.                                                  *)
RECURSIVE update_from(_, _, _)
update_from(ms, i, clk) ==
    IF i > Len(ms) THEN [meds |-> ms, raised |-> FALSE]
    ELSE IF compute_status_raises(ms[i]) THEN [meds |-> ms, raised |-> TRUE]
    ELSE update_from([ms EXCEPT ![i].status = compute_status(ms[i], clk)], i + 1, clk)

update_all_statuses(ms, clk) == update_from(ms, 1, clk)

----------------------------------------------------------------------------
(* Adherence                                                               *)

(* adherence_today as it would be counting only the open doses as          *)
(* scheduled.                                                              *)
adherence_today_open(ms) ==
    [scheduled |-> Cardinality({i \in 1..Len(ms) : ms[i].status # "taken"}),
     taken |-> Cardinality({i \in 1..Len(ms) : ms[i].status = "taken"})]

adherence_today(ms) ==
    [scheduled |-> Len(ms),
     taken |-> Cardinality({i \in 1..Len(ms) : ms[i].status = "taken"})]

(* record_daily_history, without its save_data: today's record is set.     *)
record_daily_history(h, ms, day) ==
    LET key == isoformat(day)
    IN [k \in DOMAIN h \cup {key} |-> IF k = key THEN adherence_today(ms) ELSE h[k]]

(* current_streak: the for loop over range(30) with its break.             *)
RECURSIVE streak_from(_, _, _)
streak_from(h, day, i) ==
    IF i >= StreakWindow THEN i
    ELSE LET d == isoformat(day - i)
         IN IF d \notin DOMAIN h THEN i
            ELSE IF h[d].scheduled = 0 \/ h[d].taken < h[d].scheduled THEN i
            ELSE streak_from(h, day, i + 1)

(* current_streak as it would be without the scheduled == 0 test.          *)
RECURSIVE streak_from_nozero(_, _, _)
streak_from_nozero(h, day, i) ==
    IF i >= StreakWindow THEN i
    ELSE LET d == isoformat(day - i)
         IN IF d \notin DOMAIN h THEN i
            ELSE IF h[d].taken < h[d].scheduled THEN i
            ELSE streak_from_nozero(h, day, i + 1)

current_streak_nozero(h, day) == streak_from_nozero(h, day, 0)

current_streak(h, day) == streak_from(h, day, 0)

----------------------------------------------------------------------------
(* Persistence: json.dump and json.load                                    *)

JNull == [t |-> "null"]
JNum(n) == [t |-> "num", n |-> n]
JStr(s) == [t |-> "str", s |-> s]
JArr(a) == [t |-> "arr", a |-> a]
JObj(o) == [t |-> "obj", o |-> o]

(* JSONEncoder on a leaf value: None, int or str.                          *)
json_encode(v) ==
    IF v.ty = "NoneType" THEN JNull
    ELSE IF v.ty = "int" THEN JNum(v.v)
    ELSE JStr(v.v)

(* JSONDecoder on a leaf value.                                            *)
json_decode(j) ==
    IF j.t = "null" THEN None
    ELSE IF j.t = "num" THEN PyInt(j.n)
    ELSE PyStr(j.s)

encode_med(m) ==
    JObj([id |-> json_encode(PyInt(m.id)),
          name |-> json_encode(PyStr(m.name)),
          time_str |-> json_encode(PyStr(m.time_str)),
          remind_min |-> json_encode(PyInt(m.remind_min)),
          status |-> json_encode(PyStr(m.status)),
          taken_at |-> json_encode(m.taken_at)])

decode_med(j) ==
    [id |-> json_decode(j.o.id).v,
     name |-> json_decode(j.o.name).v,
     time_str |-> json_decode(j.o.time_str).v,
     remind_min |-> json_decode(j.o.remind_min).v,
     status |-> json_decode(j.o.status).v,
     taken_at |-> json_decode(j.o.taken_at)]

encode_record(r) ==
    JObj([scheduled |-> json_encode(PyInt(r.scheduled)),
          taken |-> json_encode(PyInt(r.taken))])

decode_record(j) ==
    [scheduled |-> json_decode(j.o.scheduled).v,
     taken |-> json_decode(j.o.taken).v]

(* json.dump of the dict save_data builds.                                 *)
json_dump(ms, h, c) ==
    JObj([meds |-> JArr([i \in 1..Len(ms) |-> encode_med(ms[i])]),
          history |-> JObj([k \in DOMAIN h |-> encode_record(h[k])]),
          id_counter |-> json_encode(PyInt(c))])

EmptyHistory == [k \in {} |-> 0]

(* The store init_state builds on a fresh session, which is also what      *)
(* load_data's except branch assigns.                                      *)
DefaultStore == [meds |-> <<>>, history |-> EmptyHistory, id_counter |-> 1]

NoFile == [kind |-> "missing"]
CorruptFile == [kind |-> "corrupt"]
JsonFile(doc) == [kind |-> "json", doc |-> doc]

(* save_data as it would be with "history" left out of the dict.           *)
save_data_nohistory(ms, h, c, f, io) ==
    IF io = "ok" THEN JsonFile(json_dump(ms, EmptyHistory, c))
    ELSE IF io = "open_fails" THEN f
    ELSE CorruptFile

(* save_data: open(DATA_FILE, "w") and json.dump inside try/except: pass.  *)
(* The write succeeds, or open fails and the file stays as it was, or the  *)
(* write fails after open truncated the file.                              *)
save_data(ms, h, c, f, io) ==
    IF io = "ok" THEN JsonFile(json_dump(ms, h, c))
    ELSE IF io = "open_fails" THEN f
    ELSE CorruptFile

ParsedStore(data, counter_key) ==
    [meds |-> IF "meds" \in DOMAIN data
              THEN [i \in 1..Len(data.meds.a) |-> decode_med(data.meds.a[i])]
              ELSE <<>>,
     history |-> IF "history" \in DOMAIN data
                 THEN [k \in DOMAIN data.history.o |-> decode_record(data.history.o[k])]
                 ELSE EmptyHistory,
     id_counter |-> IF counter_key \in DOMAIN data
                    THEN json_decode(data[counter_key]).v
                    ELSE 1]

(* load_data as it would be assigning the defaults when the file does not  *)
(* exist.                                                                  *)
load_data_reset(s, f) ==
    IF f.kind = "json" THEN ParsedStore(f.doc.o, "id_counter") ELSE DefaultStore

(* load_data as it would be reading the counter under another key.         *)
load_data_counter(s, f) ==
    IF f.kind = "missing" THEN s
    ELSE IF f.kind = "json" THEN ParsedStore(f.doc.o, "counter")
    ELSE DefaultStore

(* load_data on store s: nothing when the file does not exist, the parsed  *)
(* document when json.load succeeds, the defaults when it raises.          *)
load_data(s, f) ==
    IF f.kind = "missing" THEN s
    ELSE IF f.kind = "json" THEN ParsedStore(f.doc.o, "id_counter")
    ELSE DefaultStore

----------------------------------------------------------------------------
(* The call log                                                            *)

(* op: the function that ran; found: its med_id was in the list; badtime:  *)
(* its time_str does not parse; raised: it ended in an exception; saved:   *)
(* it ended with a file write that succeeded; changed: it left meds,       *)
(* history or id_counter different from what they were.                    *)
Call(op, found, badtime, raised, saved, changed) ==
    [op |-> op, found |-> found, badtime |-> badtime, raised |-> raised,
     saved |-> saved, changed |-> changed]

HasId(ms, med_id) == \E i \in 1..Len(ms) : ms[i].id = med_id

(* The first list position holding med_id: where the for loop breaks.      *)
FirstWith(ms, med_id) ==
    CHOOSE i \in 1..Len(ms) :
        /\ ms[i].id = med_id
        /\ \A j \in 1..(i - 1) : ms[j].id # med_id

----------------------------------------------------------------------------
(* Initial state: init_state() on a fresh session, before load_data().     *)

Init ==
    /\ meds = DefaultStore.meds
    /\ history = DefaultStore.history
    /\ id_counter = DefaultStore.id_counter
    /\ file \in {NoFile, CorruptFile}
    /\ today = 0
    /\ now \in Clock
    /\ streak = 0
    /\ issued = {}
    /\ calls = 0
    /\ last = Call("init_state", FALSE, FALSE, FALSE, FALSE, FALSE)

----------------------------------------------------------------------------
(* Actions                                                                 *)

(* A rerun of the script in a running session: init_state finds its keys   *)
(* and load_data runs.                                                     *)
LoadData ==
    LET t == load_data([meds |-> meds, history |-> history, id_counter |-> id_counter],
                       file)
    IN /\ meds' = t.meds
       /\ history' = t.history
       /\ id_counter' = t.id_counter
       /\ last' = Call("load_data", FALSE, FALSE, FALSE, FALSE,
                       <<t.meds, t.history, t.id_counter>> # store)
       /\ UNCHANGED <<file, today, now, streak, issued, calls>>

(* A new session: session_state is empty, init_state builds the defaults   *)
(* and load_data runs on them.                                             *)
NewSession ==
    LET t == load_data(DefaultStore, file)
    IN /\ meds' = t.meds
       /\ history' = t.history
       /\ id_counter' = t.id_counter
       /\ streak' = 0
       /\ last' = Call("init_state", FALSE, FALSE, FALSE, FALSE,
                       <<t.meds, t.history, t.id_counter>> # store)
       /\ UNCHANGED <<file, today, now, issued, calls>>

(* In each action r is what update_all_statuses returns, computed once.    *)
add_medicine(name, time_str, remind_min, io) ==
    LET med == [id |-> id_counter,
                name |-> strip(name),
                time_str |-> strip(time_str),
                remind_min |-> remind_min,
                status |-> "upcoming",
                taken_at |-> None]
    IN /\ calls < MaxCalls
       /\ Len(meds) < MaxMeds
       /\ id_counter <= MaxId
       /\ \E r \in {update_all_statuses(Append(meds, med), now)} :
              /\ id_counter' = id_counter + 1
              /\ meds' = r.meds
              /\ file' = IF r.raised THEN file
                         ELSE save_data(r.meds, history, id_counter + 1, file, io)
              /\ last' = Call("add_medicine", TRUE, parse_raises(med.time_str),
                              r.raised, ~r.raised /\ io = "ok", TRUE)
       /\ issued' = issued \cup {id_counter}
       /\ calls' = calls + 1
       /\ UNCHANGED <<history, today, now, streak>>

edit_medicine(med_id, name, time_str, remind_min, io) ==
    LET found == HasId(meds, med_id)
        ms == IF found
              THEN LET i == FirstWith(meds, med_id)
                   IN [meds EXCEPT ![i].name = strip(name),
                                   ![i].time_str = strip(time_str),
                                   ![i].remind_min = remind_min]
              ELSE meds
    IN /\ calls < MaxCalls
       /\ \E r \in {update_all_statuses(ms, now)} :
              /\ meds' = r.meds
              /\ file' = IF r.raised THEN file
                         ELSE save_data(r.meds, history, id_counter, file, io)
              /\ last' = Call("edit_medicine", found, parse_raises(strip(time_str)),
                              r.raised, ~r.raised /\ io = "ok", r.meds # meds)
       /\ calls' = calls + 1
       /\ UNCHANGED <<history, id_counter, today, now, streak, issued>>

delete_medicine(med_id, io) ==
    LET ms == SelectSeq(meds, LAMBDA m : m.id # med_id)
    IN /\ calls < MaxCalls
       /\ \E r \in {update_all_statuses(ms, now)} :
              /\ meds' = r.meds
              /\ file' = IF r.raised THEN file
                         ELSE save_data(r.meds, history, id_counter, file, io)
              /\ last' = Call("delete_medicine", HasId(meds, med_id), FALSE, r.raised,
                              ~r.raised /\ io = "ok", r.meds # meds)
       /\ calls' = calls + 1
       /\ UNCHANGED <<history, id_counter, today, now, streak, issued>>

(* h is the history record_daily_history leaves, f1 the file after its     *)
(* save_data; mark_taken's own save_data follows.                          *)
mark_taken(med_id, io1, io2) ==
    LET found == HasId(meds, med_id)
        ms == IF found
              THEN LET i == FirstWith(meds, med_id)
                   IN [meds EXCEPT ![i].status = "taken",
                                   ![i].taken_at = PyStr(isoformat_minutes(today, now))]
              ELSE meds
    IN /\ calls < MaxCalls
       /\ \E r \in {update_all_statuses(ms, now)} :
              IF r.raised
              THEN /\ meds' = r.meds
                   /\ last' = Call("mark_taken", found, FALSE, TRUE, FALSE, r.meds # meds)
                   /\ UNCHANGED <<history, file>>
              ELSE \E h \in {record_daily_history(history, r.meds, today)} :
                       \E f1 \in {save_data(r.meds, h, id_counter, file, io1)} :
                           /\ meds' = r.meds
                           /\ history' = h
                           /\ file' = save_data(r.meds, h, id_counter, f1, io2)
                           /\ last' = Call("mark_taken", found, FALSE, FALSE, io2 = "ok",
                                           r.meds # meds \/ h # history)
       /\ calls' = calls + 1
       /\ UNCHANGED <<id_counter, today, now, streak, issued>>

(* update_all_statuses called on its own, before the statuses are shown.   *)
Refresh ==
    LET r == update_all_statuses(meds, now)
    IN /\ meds' = r.meds
       /\ last' = Call("update_all_statuses", FALSE, FALSE, r.raised, FALSE, r.meds # meds)
       /\ UNCHANGED <<history, id_counter, file, today, now, streak, issued, calls>>

ViewStreak ==
    /\ streak' = current_streak(history, today)
    /\ last' = Call("current_streak", FALSE, FALSE, FALSE, FALSE, FALSE)
    /\ UNCHANGED <<meds, history, id_counter, file, today, now, issued, calls>>

(* The wall clock moves, to any time of the day.                           *)
Tick(clk) ==
    /\ clk # now
    /\ now' = clk
    /\ last' = Call("clock", FALSE, FALSE, FALSE, FALSE, FALSE)
    /\ UNCHANGED <<meds, history, id_counter, file, today, streak, issued, calls>>

(* Midnight passes: the next day begins, early in the morning.             *)
NextDay ==
    /\ today < MaxDay
    /\ today' = today + 1
    /\ now' = Morning
    /\ last' = Call("clock", FALSE, FALSE, FALSE, FALSE, FALSE)
    /\ UNCHANGED <<meds, history, id_counter, file, streak, issued, calls>>

(* The ids a call may name: those given out in this store and one that    *)
(* is in no list.                                                          *)
Ids == 1..id_counter

Next ==
    \/ LoadData
    \/ NewSession
    \/ \E n \in Names, t \in TimeInputs, r \in RemindMins, io \in IoOutcomes :
           add_medicine(n, t, r, io)
    \/ \E i \in Ids, n \in Names, t \in TimeInputs, r \in RemindMins, io \in IoOutcomes :
           edit_medicine(i, n, t, r, io)
    \/ \E i \in Ids, io \in IoOutcomes : delete_medicine(i, io)
    \/ \E i \in Ids, io1 \in IoOutcomes, io2 \in IoOutcomes : mark_taken(i, io1, io2)
    \/ Refresh
    \/ \E clk \in Clock : Tick(clk)
    \/ NextDay

Spec == Init /\ [][Next]_vars

----------------------------------------------------------------------------
(* current_streak on its own: the histories it is given                    *)

(* A history as mark_taken leaves it over the weeks: the `run` days up to  *)
(* `day` fully taken (n of n), the day before them missing, recorded with  *)
(* nothing scheduled or taken in part, and the day before that fully taken *)
(* again.                                                                  *)
StreakHistory(day, run, brk, n) ==
    LET full == {isoformat(day - i) : i \in 0..(run - 1)}
        gap == isoformat(day - run)
        older == isoformat(day - run - 1)
        keys == full \cup {older} \cup (IF brk = "missing" THEN {} ELSE {gap})
    IN [k \in keys |->
           IF k = gap /\ brk = "zero" THEN [scheduled |-> 0, taken |-> 0]
           ELSE IF k = gap /\ brk = "partial" THEN [scheduled |-> n + 1, taken |-> n]
           ELSE [scheduled |-> n, taken |-> n]]

InitStreak ==
    /\ meds = DefaultStore.meds
    /\ id_counter = DefaultStore.id_counter
    /\ file = NoFile
    /\ today \in StreakDays
    /\ now \in Clock
    /\ \E run \in 0..MaxRun, brk \in BreakKinds, n \in 1..MaxMeds :
           history = StreakHistory(today, run, brk, n)
    /\ streak = 0
    /\ issued = {}
    /\ calls = 0
    /\ last = Call("init_state", FALSE, FALSE, FALSE, FALSE, FALSE)

NextStreak == ViewStreak

SpecStreak == InitStreak /\ [][NextStreak]_vars

----------------------------------------------------------------------------
(* Properties                                                              *)

StoreRec == [meds |-> meds, history |-> history, id_counter |-> id_counter]

Mutators == {"add_medicine", "edit_medicine", "delete_medicine", "mark_taken"}

(* The calls that run update_all_statuses.                                 *)
Refreshers == Mutators \cup {"update_all_statuses"}

(* C1: a medicine whose status is "taken" is still "taken" after every     *)
(* step that runs update_all_statuses (on its own or inside add_medicine,  *)
(* edit_medicine, delete_medicine, mark_taken), whatever the clock shows,  *)
(* as long as the medicine is in the list after the step.                  *)
TakenIsSticky ==
    [][last'.op \in Refreshers =>
          \A i \in 1..Len(meds) : \A j \in 1..Len(meds') :
              (meds[i].status = "taken" /\ meds'[j].id = meds[i].id)
                  => meds'[j].status = "taken"]_vars

(* C1 witness: update_all_statuses has run on a medicine taken at another  *)
(* minute or day than the clock shows now, next to one that is not taken.  *)
TakenIsStickyWitness ==
    /\ last.op = "update_all_statuses"
    /\ ~last.raised
    /\ \E i \in 1..Len(meds) :
           /\ meds[i].status = "taken"
           /\ meds[i].taken_at # PyStr(isoformat_minutes(today, now))
           /\ now >= parse_hhmm("8:00")
    /\ \E i \in 1..Len(meds) : meds[i].status = "missed"

(* C2: add_medicine or edit_medicine called with a time string that does   *)
(* not parse leaves the medicine list, the history, the id counter and the *)
(* file as they were.                                                      *)
FailedParseLeavesState ==
    [][(last'.op \in {"add_medicine", "edit_medicine"} /\ last'.badtime)
          => UNCHANGED <<meds, history, id_counter, file>>]_vars

UniqueIds(ms) ==
    \A i \in 1..Len(ms) : \A j \in 1..Len(ms) : ms[i].id = ms[j].id => i = j

(* The state half of C3, which the code keeps.                             *)
IdsUniqueBelowCounter ==
    /\ UniqueIds(meds)
    /\ \A i \in 1..Len(meds) : meds[i].id < id_counter

(* C3: every medicine id in the list is unique and below id_counter, and   *)
(* add_medicine never gives out an id it has given out before.             *)
IdsUniqueNeverReused ==
    [][/\ UniqueIds(meds')
       /\ \A i \in 1..Len(meds') : meds'[i].id < id_counter'
       /\ (last'.op = "add_medicine" /\ calls' = calls + 1)
              => id_counter \notin issued]_vars

(* C4: mark_taken with an id that is not in the list leaves the medicine   *)
(* list, the history and the id counter as they were.                      *)
MarkTakenAbsentIsNoOp ==
    [][(last'.op = "mark_taken" /\ ~last'.found)
          => UNCHANGED <<meds, history, id_counter>>]_vars

(* C5 as claimed: after load_data with the file missing or unparseable the *)
(* store is the default empty store, whatever it held before.              *)
LoadWithoutFileGivesDefault ==
    [][(last'.op = "load_data" /\ file.kind # "json")
          => StoreRec' = DefaultStore]_vars

(* C5 as amended: after load_data with an unparseable file the store is    *)
(* the default empty store whatever it held before; with the file missing  *)
(* load_data leaves the store as it was, which on a fresh session, right   *)
(* after init_state, is the default empty store.                           *)
LoadFallsBack ==
    [][/\ (last'.op = "load_data" /\ file.kind = "corrupt")
              => StoreRec' = DefaultStore
       /\ (last'.op = "load_data" /\ file.kind = "missing")
              => StoreRec' = StoreRec
       /\ (last'.op = "init_state" /\ file.kind # "json")
              => StoreRec' = DefaultStore]_vars

(* C5 witness: load_data has replaced a store that was not the default one *)
(* by the default one, the file being unparseable.                         *)
LoadFallsBackWitness ==
    /\ last.op = "load_data"
    /\ last.changed
    /\ file.kind = "corrupt"
    /\ StoreRec = DefaultStore
    /\ issued # {}

(* C6: when add_medicine, edit_medicine, delete_medicine or mark_taken has *)
(* completed with its file write succeeding, the file holds the document   *)
(* of the in-memory store: its medicines with the statuses of the present  *)
(* time, its history and its id counter.                                   *)
PersistedEqualsStore ==
    (last.op \in Mutators /\ ~last.raised /\ last.saved) =>
        /\ file = JsonFile(json_dump(meds, history, id_counter))
        /\ file.doc.o.id_counter = JNum(id_counter)
        /\ DOMAIN file.doc.o.history.o = DOMAIN history
        /\ \A i \in 1..Len(meds) :
               file.doc.o.meds.a[i].o.status = JStr(compute_status(meds[i], now))

(* C6 witness: mark_taken has marked one of two medicines and written the  *)
(* file.                                                                   *)
PersistedEqualsStoreWitness ==
    /\ last.op = "mark_taken"
    /\ last.found
    /\ last.saved
    /\ Len(meds) = 2
    /\ DOMAIN history # {}

(* C7: for every store that is not empty, save_data with the write         *)
(* succeeding followed by load_data gives back the same medicines in the   *)
(* same order with the same fields, the same history and the same counter. *)
SaveLoadRoundTrip ==
    (Len(meds) > 0 \/ DOMAIN history # {}) =>
        load_data(DefaultStore, save_data(meds, history, id_counter, file, "ok"))
            = StoreRec

(* C7 witness: load_data has read back a file holding a taken medicine     *)
(* (taken_at a string), one not taken (taken_at None) and a history.       *)
SaveLoadRoundTripWitness ==
    /\ last.op = "load_data"
    /\ file.kind = "json"
    /\ file = JsonFile(json_dump(meds, history, id_counter))
    /\ \E i \in 1..Len(meds) : meds[i].taken_at # None
    /\ \E i \in 1..Len(meds) : meds[i].taken_at = None
    /\ DOMAIN history # {}
    /\ id_counter > 1

(* C8: after update_all_statuses has run through, every medicine that is   *)
(* not "taken" is "upcoming" when the clock is strictly before its parsed  *)
(* time and "missed" otherwise, so "missed" when the two are equal.        *)
StatusFollowsClock ==
    (last.op \in Refreshers /\ ~last.raised) =>
        \A i \in 1..Len(meds) :
            meds[i].status # "taken" =>
                /\ meds[i].status \in {"upcoming", "missed"}
                /\ meds[i].status = "upcoming" <=> now < parse_hhmm(meds[i].time_str)
                /\ now = parse_hhmm(meds[i].time_str) => meds[i].status = "missed"

(* C8 witness: update_all_statuses has run with the clock exactly at a     *)
(* medicine's time, and that medicine is "missed".                         *)
StatusFollowsClockWitness ==
    /\ last.op = "update_all_statuses"
    /\ ~last.raised
    /\ \E i \in 1..Len(meds) :
           /\ ~parse_raises(meds[i].time_str)
           /\ now = parse_hhmm(meds[i].time_str)
           /\ meds[i].status = "missed"

(* C9: every record of the history has taken <= scheduled.                 *)
HistoryTakenAtMostScheduled ==
    \A k \in DOMAIN history : history[k].taken <= history[k].scheduled

(* C9 witness: mark_taken has recorded a day with one of two doses taken.  *)
HistoryTakenAtMostScheduledWitness ==
    /\ last.op = "mark_taken"
    /\ last.found
    /\ isoformat(today) \in DOMAIN history
    /\ history[isoformat(today)] = [scheduled |-> 2, taken |-> 1]

(* Day i before today counts for the streak, as C10 words it: a record     *)
(* exists, something was scheduled and all of it was taken.                *)
FullyTaken(i) ==
    LET d == isoformat(today - i)
    IN /\ d \in DOMAIN history
       /\ history[d].scheduled > 0
       /\ history[d].taken = history[d].scheduled

(* C10: current_streak returns the number of consecutive fully taken days  *)
(* counted back from today, stopping at the first day that is not, never   *)
(* more than 30; with today and yesterday fully taken and no record two    *)
(* days ago it returns 2.                                                  *)
StreakCountsFullDays ==
    last.op = "current_streak" =>
        /\ streak \in 0..30
        /\ \A i \in 0..(streak - 1) : FullyTaken(i)
        /\ streak < 30 => ~FullyTaken(streak)
        /\ (FullyTaken(0) /\ FullyTaken(1) /\ isoformat(today - 2) \notin DOMAIN history)
               => streak = 2

(* C10 witness: current_streak has returned 2 for today and yesterday      *)
(* fully taken and no record two days ago.                                 *)
StreakCountsFullDaysWitness ==
    /\ last.op = "current_streak"
    /\ FullyTaken(0)
    /\ FullyTaken(1)
    /\ isoformat(today - 2) \notin DOMAIN history
    /\ streak = 2

(* The look-back is cut at 30 days although day 31 is fully taken too.     *)
StreakCapReached ==
    /\ last.op = "current_streak"
    /\ streak = 30
    /\ FullyTaken(30)

====
